---- MODULE Spec2Model ----
(***************************************************************************)
(* Model of agora/client/client.py: Client.submit_earn_batch, the          *)
(* per-sub-batch transaction submission (_submit_earn_batch_tx) and the    *)
(* nonce-refreshing coordinator (_sign_and_submit_builder), alone and as   *)
(* two concurrent calls against one account's ledger.                      *)
(*                                                                         *)
(* Earns are identified by their 1-based position in the input list (the   *)
(* Python code is 0-based).  Optional values are <<>> (None) or <<v>>.     *)
(* Each action runs the code between two calls of the transport boundary   *)
(* (get_account_info, submit_transaction).                                 *)
(***************************************************************************)
EXTENDS Integers, Sequences, FiniteSets, TLC

\* ---------------------------------------------------------------- bounds
\* Longest input list of earns.
MaxEarns == 5
\* Earns per transaction: partition(earns, 100) and len(earns) > 100 in the
\* source; scaled down so that several sub-batches fit in MaxEarns.
BatchSize == 2
\* Largest configured RetryConfig.max_nonce_refreshes.
MaxNonceRefreshes == 1
\* Largest sequence number the account fetch returns.
MaxSequence == 1
\* Largest value passed for a RetryConfig parameter (the smallest is -1).
MaxArg == 2

\* ------------------------------------------------------------- data model
None == <<>>
Some(v) == <<v>>

Min(a, b) == IF a < b THEN a ELSE b
Ceil(k, s) == (k + s - 1) \div s

\* Exceptions that are instances of agora.error.Error.  Python's IndexError
\* and ValueError and grpc's RpcError are not.
AgoraErrors ==
  {"Error", "Error: unexpected invoice errors present", "AccountNotFoundError",
   "BadNonceError", "InsufficientBalanceError", "TransactionRejectedError"}

\* `except Error as e` matches instances of agora.error.Error only.
IsError(e) == e \in AgoraErrors

\* What get_account_info can raise: the account is missing, or the transport
\* failed after the outer retries.
FetchRaises == {"AccountNotFoundError", "RpcError"}

\* What submit_transaction can raise: a rejected transaction, or the
\* transport failed after the outer retries.
SubmitRaises == {"TransactionRejectedError", "RpcError"}

\* Whole-transaction errors a result can carry.
TxErrorKinds == {"BadNonceError", "InsufficientBalanceError"}

\* Per-operation errors of a result: one optional error per operation.  The
\* transport is not trusted to return as many as there are operations.
OpErrorLists ==
  UNION {[1..n -> {None, Some("InsufficientBalanceError")}] : n \in 1..(BatchSize + 1)}

InvoiceErrorLists ==
  {<<>>, <<"ALREADY_PAID">>, <<"WRONG_DESTINATION">>, <<"SKU_NOT_FOUND">>, <<"UNKNOWN">>,
   <<"ALREADY_PAID", "SKU_NOT_FOUND">>}

\* SubmitTransactionResult values the transport can return for the
\* submission whose transaction hash is h.
Results(h) ==
  {[tx_hash |-> h, tx_error |-> None, invoice_errors |-> ie] : ie \in InvoiceErrorLists}
  \cup {[tx_hash |-> h, tx_error |-> Some([tx_error |-> Some(k), op_errors |-> <<>>]),
         invoice_errors |-> <<>>] : k \in TxErrorKinds}
  \cup {[tx_hash |-> h, tx_error |-> Some([tx_error |-> Some("Error"), op_errors |-> oe]),
         invoice_errors |-> <<>>] : oe \in OpErrorLists}

EarnResult(earn, tx_hash, error) == [earn |-> earn, tx_hash |-> tx_hash, error |-> error]

\* agora.utils.partition: consecutive slices of `size`, the last may be smaller.
partition(l, size) ==
  [b \in 1..Ceil(Len(l), size) |-> SubSeq(l, (b - 1) * size + 1, Min(b * size, Len(l)))]

\* agora.retry.RetriableErrorsStrategy.should_retry
RetriableErrorsStrategy(errors, attempts, e) == e \in errors
\* agora.retry.LimitStrategy.should_retry: attempts counts the attempts made.
LimitStrategy(max_attempts, attempts, e) == attempts < max_attempts

VARIABLES
  earns,                \* input: earns[i] = TRUE iff earn i carries an invoice
  memo,                 \* input: a free-text memo is supplied
  channel,              \* input: a channel account is given
  app_index,            \* Client.app_index
  whitelist_key,        \* Client.whitelist_key is set
  max_nonce_refreshes,  \* RetryConfig.max_nonce_refreshes
  pc,                   \* position of the call
  succeeded, failed,    \* the two result lists
  batch_no,             \* number of the sub-batch the loop is at
  source_info,          \* sequence number fetched by the coordinator
  offset,               \* the coordinator's sequence offset
  attempts,             \* attempts the retry executor has made
  result,               \* what the coordinator last returned to its caller
  fetches,              \* history: get_account_info calls
  txs,                  \* history: transactions built, one per sub-batch
  submissions,          \* history: submit_transaction calls
  outcomes,             \* history: how each _submit_earn_batch_tx call ended
  raised,               \* the exception that left the call
  payment,              \* submit_payment: the Payment submitted
  returned,             \* submit_payment: the transaction hash returned
  rc_args,              \* RetryConfig: the constructor's arguments
  retry_config,         \* RetryConfig: the constructed object's fields
  calls,                \* concurrent coordinator calls: each call's local state
  ledger                \* concurrent coordinator calls: the source account's ledger

vars == <<earns, memo, channel, app_index, whitelist_key, max_nonce_refreshes, pc,
          succeeded, failed, batch_no, source_info, offset, attempts, result, fetches,
          txs, submissions, outcomes, raised, payment, returned, rc_args, retry_config,
          calls, ledger>>

\* What a submit_earn_batch call reads and never writes.
inputs == <<earns, memo, channel, app_index, whitelist_key, max_nonce_refreshes>>
\* The state of submit_payment and of RetryConfig, untouched by submit_earn_batch.
payment_vars == <<payment, returned>>
config_vars == <<rc_args, retry_config>>
\* The state of concurrent coordinator calls, untouched by a single operation.
concurrent_vars == <<calls, ledger>>

\* The input earns, by position, and their sub-batches.
EarnList == [i \in 1..Len(earns) |-> i]
Batches == partition(EarnList, BatchSize)

\* invoices = [earn.invoice for earn in earns if earn.invoice]
Invoices(es) == SelectSeq(es, LAMBDA inv : inv)

\* Variant of ConfigError without the memo check.
ConfigError_NoMemoCheck ==
  /\ Invoices(earns) # <<>>
  /\ \/ app_index <= 0
     \/ Len(Invoices(earns)) # Len(earns)

\* The three configuration checks made when some earn carries an invoice.
ConfigError ==
  /\ Invoices(earns) # <<>>
  /\ \/ app_index <= 0
     \/ Len(Invoices(earns)) # Len(earns)
     \/ memo

\* Variant of FailedWithException that forgets the error.
FailedWithException_NoError(batch, e) ==
  [idx \in 1..Len(batch) |-> EarnResult(batch[idx], None, None)]

\* [EarnResult(earn, error=e) for idx, earn in enumerate(earn_batch)]
FailedWithException(batch, e) ==
  [idx \in 1..Len(batch) |-> EarnResult(batch[idx], None, Some(e))]

\* Variant of SucceededWith that walks the sub-batch backwards.
SucceededWith_Reversed(batch, tx_hash) ==
  [idx \in 1..Len(batch) |-> EarnResult(batch[Len(batch) + 1 - idx], Some(tx_hash), None)]

\* [EarnResult(earn, tx_hash=result.tx_hash) for earn in earn_batch]
SucceededWith(batch, tx_hash) ==
  [idx \in 1..Len(batch) |-> EarnResult(batch[idx], Some(tx_hash), None)]

\* [EarnResult(earn, tx_hash=result.tx_hash, error=err.op_errors[idx]) ...];
\* evaluated only when op_errors has an entry for every idx (IndexError
\* otherwise, see SubmissionReturned).
FailedWithOpErrors(batch, tx_hash, op_errors) ==
  [idx \in 1..Len(batch) |-> EarnResult(batch[idx], Some(tx_hash), op_errors[idx])]

\* Variant of FailedWithTxError that forgets the transaction hash.
FailedWithTxError_NoHash(batch, tx_hash, tx_error) ==
  [idx \in 1..Len(batch) |-> EarnResult(batch[idx], None, tx_error)]

\* [EarnResult(earn, tx_hash=result.tx_hash, error=err.tx_error) ...]
FailedWithTxError(batch, tx_hash, tx_error) ==
  [idx \in 1..Len(batch) |-> EarnResult(batch[idx], Some(tx_hash), tx_error)]

\* Variant of Unattempted that slices from len(succeeded) only.
Unattempted_FromSucceeded(s, f) ==
  [k \in 1..(Len(earns) - Len(s)) |-> EarnResult(EarnList[Len(s) + k], None, None)]

\* for earn in earns[len(succeeded) + len(failed):]: EarnResult(earn=earn)
Unattempted(s, f) ==
  [k \in 1..(Len(earns) - (Len(s) + Len(f))) |->
     EarnResult(EarnList[Len(s) + Len(f) + k], None, None)]

\* Variant of Signers that puts the whitelist key first.
Signers_WhitelistFirst(ch) ==
  (IF whitelist_key THEN <<"whitelist_key">> ELSE <<>>)
    \o (IF ch THEN <<"channel", "sender">> ELSE <<"sender">>)

\* signers = [channel, sender] or [sender], then the whitelist key if set.
Signers(ch) ==
  (IF ch THEN <<"channel", "sender">> ELSE <<"sender">>)
    \o (IF whitelist_key THEN <<"whitelist_key">> ELSE <<>>)

\* Variant of BuildTx that leaves out the last earn's operation.
BuildTx_DropsLast(batch) ==
  [ops |-> SubSeq(batch, 1, Len(batch) - 1),
   invoice_list |-> None,
   source |-> IF channel THEN "channel" ELSE "sender",
   signers |-> Signers(channel),
   memo |-> IF memo THEN "text" ELSE IF app_index > 0 THEN "agora" ELSE "none"]

\* The transaction _submit_earn_batch_tx builds for a sub-batch: one payment
\* operation per earn, one memo, the sub-batch's invoice list.
BuildTx(batch) ==
  LET invoices == Invoices([idx \in 1..Len(batch) |-> earns[batch[idx]]]) IN
  [ops |-> batch,
   invoice_list |-> IF invoices # <<>> THEN Some(batch) ELSE None,
   source |-> IF channel THEN "channel" ELSE "sender",
   signers |-> Signers(channel),
   memo |-> IF memo THEN "text" ELSE IF app_index > 0 THEN "agora" ELSE "none"]

\* Variant of Sequence that ignores the offset.
Sequence_NoOffset(sequence_number, off) == sequence_number + 1

\* builder.sequence = source_info.sequence_number + offset
Sequence(sequence_number, off) == sequence_number + off

\* Variant of IsBadNonce that takes any transaction error for a bad nonce.
IsBadNonce_AnyTxError(r) == r.tx_error # None

\* result.tx_error and isinstance(result.tx_error.tx_error, BadNonceError)
IsBadNonce(r) == r.tx_error # None /\ r.tx_error[1].tx_error = Some("BadNonceError")

\* Variant of NonceRetry with one attempt more.
NonceRetry_OneMore(attempts_made, e) ==
  /\ RetriableErrorsStrategy({"BadNonceError"}, attempts_made, e)
  /\ LimitStrategy(max_nonce_refreshes + 2, attempts_made, e)

\* Variant of NonceRetry without the retriable-errors strategy.
NonceRetry_LimitOnly(attempts_made, e) ==
  LimitStrategy(max_nonce_refreshes + 1, attempts_made, e)

\* self._nonce_retry_strategies, all consulted after a failed attempt.
NonceRetry(attempts_made, e) ==
  /\ RetriableErrorsStrategy({"BadNonceError"}, attempts_made, e)
  /\ LimitStrategy(max_nonce_refreshes + 1, attempts_made, e)

\* What one submit_transaction call can do.
TransportOutcomes(h) ==
  {[raises |-> Some(e), result |-> None] : e \in SubmitRaises}
  \cup {[raises |-> None, result |-> Some(r)] : r \in Results(h)}

\* ---------------------------------------------------------------- actions
\* The values of the variables of the other operations while no such
\* operation runs.
NoPayment == [invoice |-> FALSE, memo |-> FALSE, channel |-> FALSE]
NoArgs == [max_retries |-> None, min_delay |-> None, max_delay |-> None,
           max_nonce_refreshes |-> None]
NoCalls == <<>>
NoLedger == [sequence |-> 0, accepted |-> <<>>, other_writer |-> FALSE, other_writes |-> 0]

Init ==
  /\ earns \in UNION {[1..n -> BOOLEAN] : n \in 0..MaxEarns}
  /\ memo \in BOOLEAN
  /\ channel \in BOOLEAN
  /\ app_index \in {0, 1}
  /\ whitelist_key \in BOOLEAN
  /\ max_nonce_refreshes \in 0..MaxNonceRefreshes
  /\ pc = "start"
  /\ succeeded = <<>>
  /\ failed = <<>>
  /\ batch_no = 1
  /\ source_info = 0
  /\ offset = 1
  /\ attempts = 0
  /\ txs = <<>>
  /\ submissions = <<>>
  /\ outcomes = <<>>
  /\ raised = None
  /\ result = None
  /\ fetches = <<>>
  /\ payment = NoPayment
  /\ returned = None
  /\ rc_args = NoArgs
  /\ retry_config = None
  /\ calls = NoCalls
  /\ ledger = NoLedger

\* return BatchEarnResult(succeeded=s, failed=f + the never-attempted earns)
Return(s, f) ==
  /\ succeeded' = s
  /\ failed' = f \o Unattempted(s, f)
  /\ pc' = "returned"
  /\ UNCHANGED raised

\* An exception leaves submit_earn_batch; no BatchEarnResult exists.
Escape(e) ==
  /\ pc' = "raised"
  /\ raised' = Some(e)
  /\ UNCHANGED <<succeeded, failed>>

\* Variant of Break that goes on with the next sub-batch.
Break_Continue(s, f) ==
  /\ succeeded' = s
  /\ failed' = f
  /\ batch_no' = batch_no + 1
  /\ pc' = "loop"
  /\ UNCHANGED raised

\* break: leave the loop, then the tail loop and the return.
Break(s, f) ==
  /\ Return(s, f)
  /\ UNCHANGED batch_no

\* submit_earn_batch up to the loop: the invoice checks.
Validate ==
  /\ pc = "start"
  /\ IF ConfigError
       THEN Escape("ValueError")
       ELSE pc' = "loop" /\ UNCHANGED <<succeeded, failed, raised>>
  /\ UNCHANGED <<inputs, concurrent_vars, payment_vars, config_vars, batch_no, source_info,
                 offset, attempts, result, fetches, txs, submissions, outcomes>>

\* The loop takes the next sub-batch; _submit_earn_batch_tx builds its
\* transaction and calls the coordinator.
LoopNext ==
  /\ pc = "loop"
  /\ batch_no <= Len(Batches)
  /\ IF Len(Batches[batch_no]) > BatchSize
       THEN Escape("ValueError") /\ UNCHANGED txs
       ELSE /\ txs' = Append(txs, BuildTx(Batches[batch_no]))
            /\ pc' = "fetch"
            /\ UNCHANGED <<succeeded, failed, raised>>
  /\ UNCHANGED <<inputs, concurrent_vars, payment_vars, config_vars, batch_no, source_info,
                 offset, attempts, result, fetches, submissions, outcomes>>

\* The loop is exhausted: the tail loop appends nothing, the call returns.
LoopEnd ==
  /\ pc = "loop"
  /\ batch_no > Len(Batches)
  /\ Return(succeeded, failed)
  /\ UNCHANGED <<inputs, concurrent_vars, payment_vars, config_vars, batch_no, source_info,
                 offset, attempts, result, fetches, txs, submissions, outcomes>>

\* except Error as e: failed += ...; break.  Any other exception propagates.
SubmissionRaised(e) ==
  /\ outcomes' = Append(outcomes, [raises |-> Some(e), result |-> None])
  /\ IF IsError(e)
       THEN Break(succeeded, failed \o FailedWithException(Batches[batch_no], e))
       ELSE Escape(e) /\ UNCHANGED batch_no

\* _submit_earn_batch_tx returned result r to the loop body.
SubmissionReturned(r) ==
  /\ outcomes' = Append(outcomes, [raises |-> None, result |-> Some(r)])
  /\ IF r.tx_error = None
       THEN /\ succeeded' = succeeded \o SucceededWith(Batches[batch_no], r.tx_hash)
            /\ batch_no' = batch_no + 1
            /\ pc' = "loop"
            /\ UNCHANGED <<failed, raised>>
       ELSE LET err == r.tx_error[1]
                batch == Batches[batch_no] IN
            IF err.op_errors # <<>>
              THEN IF Len(err.op_errors) < Len(batch)
                     THEN Escape("IndexError") /\ UNCHANGED batch_no
                     ELSE Break(succeeded,
                                failed \o FailedWithOpErrors(batch, r.tx_hash, err.op_errors))
              ELSE Break(succeeded, failed \o FailedWithTxError(batch, r.tx_hash, err.tx_error))

\* Variant of AfterCoordinator that does not look at the invoice errors.
AfterCoordinator_IgnoresInvoiceErrors(r) == SubmissionReturned(r)

\* _submit_earn_batch_tx after the coordinator returned r.
AfterCoordinator(r) ==
  IF r.invoice_errors # <<>>
    THEN SubmissionRaised("Error: unexpected invoice errors present")
    ELSE SubmissionReturned(r)

\* source_info = get_account_info(signers[0].public_key); offset = 1
FetchAccount ==
  /\ pc = "fetch"
  /\ \E s \in 0..MaxSequence :
       /\ source_info' = s
       /\ offset' = 1
       /\ attempts' = 0
       /\ pc' = "submit"
  /\ fetches' = Append(fetches, [tx |-> Len(txs), account |-> txs[Len(txs)].signers[1],
                                  raises |-> None, sequence_number |-> Some(source_info')])
  /\ UNCHANGED <<inputs, concurrent_vars, payment_vars, config_vars, succeeded, failed,
                 batch_no, result, txs, submissions, outcomes, raised>>

\* get_account_info raises.
FetchFails ==
  /\ pc = "fetch"
  /\ \E e \in FetchRaises :
       /\ fetches' = Append(fetches, [tx |-> Len(txs), account |-> txs[Len(txs)].signers[1],
                                       raises |-> Some(e), sequence_number |-> None])
       /\ SubmissionRaised(e)
  /\ UNCHANGED <<inputs, concurrent_vars, payment_vars, config_vars, source_info, offset,
                 attempts, result, txs, submissions>>

\* The outcome out of one attempt of _sign_and_submit under
\* retry(self._nonce_retry_strategies, .), made after the submit_transaction
\* calls in prior, and what follows it up to the next transport call.
Attempt(prior, out) ==
  /\ submissions' = Append(prior,
                           [tx |-> Len(txs), sequence |-> Sequence(source_info, offset),
                            signers |-> txs[Len(txs)].signers, out |-> out])
  /\ attempts' = attempts + 1
  /\ IF out.raises # None
       THEN /\ UNCHANGED <<offset, result>>
            /\ IF NonceRetry(attempts + 1, out.raises[1])
                 THEN /\ pc' = "submit"
                      /\ UNCHANGED <<succeeded, failed, batch_no, outcomes, raised>>
                 ELSE SubmissionRaised(out.raises[1])
       ELSE IF IsBadNonce(out.result[1])
              THEN /\ offset' = offset + 1
                   /\ UNCHANGED result
                   /\ IF NonceRetry(attempts + 1, "BadNonceError")
                        THEN /\ pc' = "submit"
                             /\ UNCHANGED <<succeeded, failed, batch_no, outcomes, raised>>
                        ELSE SubmissionRaised("BadNonceError")
              ELSE /\ UNCHANGED offset
                   /\ result' = out.result
                   /\ AfterCoordinator(out.result[1])

\* One attempt with its submit_transaction call, taken as one step.
SignAndSubmit ==
  /\ pc = "submit"
  /\ \E out \in TransportOutcomes(Len(submissions) + 1) : Attempt(submissions, out)
  /\ UNCHANGED <<inputs, concurrent_vars, payment_vars, config_vars, source_info, fetches, txs>>

Next ==
  \/ Validate
  \/ LoopNext
  \/ LoopEnd
  \/ FetchAccount
  \/ FetchFails
  \/ SignAndSubmit

Spec == Init /\ [][Next]_vars

\* ------------------------------------- submit_earn_batch, transport calls
\* The same call with every submit_transaction call taken in two steps: the
\* call is issued, and later it returns or raises.
\* The outcome recorded for a submit_transaction call that has not ended.
Pending == [raises |-> None, result |-> None]

\* Variant of CallSubmit that does not wait for the call to end.
CallSubmit_NoWait ==
  /\ pc = "submit"
  /\ submissions' = Append(submissions,
                           [tx |-> Len(txs), sequence |-> Sequence(source_info, offset),
                            signers |-> txs[Len(txs)].signers, out |-> Pending])
  /\ UNCHANGED <<inputs, concurrent_vars, payment_vars, config_vars, pc, succeeded, failed,
                 batch_no, source_info, offset, attempts, result, fetches, txs, outcomes,
                 raised>>

\* _sign_and_submit signs with the next sequence number and calls
\* submit_transaction; the call blocks until the transport answers.
CallSubmit ==
  /\ pc = "submit"
  /\ submissions' = Append(submissions,
                           [tx |-> Len(txs), sequence |-> Sequence(source_info, offset),
                            signers |-> txs[Len(txs)].signers, out |-> Pending])
  /\ pc' = "awaiting"
  /\ UNCHANGED <<inputs, concurrent_vars, payment_vars, config_vars, succeeded, failed,
                 batch_no, source_info, offset, attempts, result, fetches, txs, outcomes,
                 raised>>

\* The pending submit_transaction call returns or raises, and the code runs
\* up to the next transport call.
SubmitEnds ==
  /\ pc = "awaiting"
  /\ \E out \in TransportOutcomes(Len(submissions)) :
       Attempt(SubSeq(submissions, 1, Len(submissions) - 1), out)
  /\ UNCHANGED <<inputs, concurrent_vars, payment_vars, config_vars, source_info, fetches, txs>>

NextCalls ==
  \/ Validate
  \/ LoopNext
  \/ LoopEnd
  \/ FetchAccount
  \/ FetchFails
  \/ CallSubmit
  \/ SubmitEnds

\* The calling thread keeps running and every transport call ends.
SpecCalls == Init /\ [][NextCalls]_vars /\ WF_vars(NextCalls)

\* ---------------------------------------------------------- submit_payment
\* State shared by the two operations that are not part of a submit_payment call.
batch_vars == <<succeeded, failed, batch_no, outcomes>>

\* Variant of PaymentArgsError that accepts a memo together with an invoice.
PaymentArgsError_Accepts == FALSE

\* Payment: the free-text memo is mutually exclusive with the invoice.
PaymentArgsError == payment.invoice /\ payment.memo

\* Variant of PaymentConfigError that only rejects a negative app index.
PaymentConfigError_NegativeOnly == payment.invoice /\ app_index < 0

\* if payment.invoice and self.app_index <= 0: raise ValueError
PaymentConfigError == payment.invoice /\ app_index <= 0

\* The transaction submit_payment builds: the memo (text, or the Agora memo
\* with the invoice list's hash), one payment operation, the signers.
BuildPaymentTx ==
  [ops |-> <<1>>,
   invoice_list |-> IF ~payment.memo /\ app_index > 0 /\ payment.invoice
                      THEN Some(<<1>>) ELSE None,
   source |-> IF payment.channel THEN "channel" ELSE "sender",
   signers |-> Signers(payment.channel),
   memo |-> IF payment.memo THEN "text" ELSE IF app_index > 0 THEN "agora" ELSE "none"]

\* Variant of InvoiceErrorFor that reports every reason as a generic error.
InvoiceErrorFor_Generic(reason) == "Error: unknown invoice error"

\* The error raised for the reason of the single invoice error.
InvoiceErrorFor(reason) ==
  IF reason = "ALREADY_PAID" THEN "AlreadyPaidError"
  ELSE IF reason = "WRONG_DESTINATION" THEN "WrongDestinationError"
  ELSE IF reason = "SKU_NOT_FOUND" THEN "SkuNotFoundError"
  ELSE "Error: unknown invoice error"

InitPayment ==
  /\ earns = <<>>
  /\ memo = FALSE
  /\ channel = FALSE
  /\ app_index \in {0, 1}
  /\ whitelist_key \in BOOLEAN
  /\ max_nonce_refreshes \in 0..MaxNonceRefreshes
  /\ pc = "new"
  /\ succeeded = <<>>
  /\ failed = <<>>
  /\ batch_no = 1
  /\ source_info = 0
  /\ offset = 1
  /\ attempts = 0
  /\ txs = <<>>
  /\ submissions = <<>>
  /\ outcomes = <<>>
  /\ raised = None
  /\ result = None
  /\ fetches = <<>>
  /\ payment \in [invoice : BOOLEAN, memo : BOOLEAN, channel : BOOLEAN]
  /\ returned = None
  /\ rc_args = NoArgs
  /\ retry_config = None
  /\ calls = NoCalls
  /\ ledger = NoLedger

\* An exception leaves submit_payment (or the Payment constructor).
PaymentRaises(e) ==
  /\ pc' = "raised"
  /\ raised' = Some(e)
  /\ UNCHANGED returned

\* return result.tx_hash
PaymentReturns(tx_hash) ==
  /\ pc' = "returned"
  /\ returned' = Some(tx_hash)
  /\ UNCHANGED raised

\* The caller constructs the Payment.
ConstructPayment ==
  /\ pc = "new"
  /\ IF PaymentArgsError
       THEN PaymentRaises("ValueError")
       ELSE pc' = "start" /\ UNCHANGED <<raised, returned>>
  /\ UNCHANGED <<inputs, concurrent_vars, batch_vars, config_vars, payment, source_info,
                 offset, attempts, result, fetches, txs, submissions>>

\* submit_payment up to the call of the coordinator.
PaymentBuild ==
  /\ pc = "start"
  /\ IF PaymentConfigError
       THEN PaymentRaises("ValueError") /\ UNCHANGED txs
       ELSE /\ txs' = <<BuildPaymentTx>>
            /\ pc' = "fetch"
            /\ UNCHANGED <<raised, returned>>
  /\ UNCHANGED <<inputs, concurrent_vars, batch_vars, config_vars, payment, source_info,
                 offset, attempts, result, fetches, submissions>>

\* if result.invoice_errors: ... ; return result.tx_hash
PaymentInvoiceErrors(r) ==
  IF r.invoice_errors # <<>>
    THEN IF Len(r.invoice_errors) # 1
           THEN PaymentRaises("Error: invalid number of invoice errors")
           ELSE PaymentRaises(InvoiceErrorFor(r.invoice_errors[1]))
    ELSE PaymentReturns(r.tx_hash)

\* submit_payment after the coordinator returned r.  `raise None` (an
\* operation error list whose only entry is None) is a TypeError.
PaymentResult(r) ==
  IF r.tx_error # None
    THEN LET err == r.tx_error[1] IN
         IF Len(err.op_errors) > 0
           THEN IF Len(err.op_errors) # 1
                  THEN PaymentRaises("Error: invalid number of operation errors")
                  ELSE IF err.op_errors[1] = None
                         THEN PaymentRaises("TypeError")
                         ELSE PaymentRaises(err.op_errors[1][1])
           ELSE IF err.tx_error # None
                  THEN PaymentRaises(err.tx_error[1])
                  ELSE PaymentInvoiceErrors(r)
    ELSE PaymentInvoiceErrors(r)

\* source_info = get_account_info(signers[0].public_key); offset = 1
PaymentFetchAccount ==
  /\ pc = "fetch"
  /\ \E s \in 0..MaxSequence :
       /\ source_info' = s
       /\ offset' = 1
       /\ attempts' = 0
       /\ pc' = "submit"
  /\ fetches' = Append(fetches, [tx |-> Len(txs), account |-> txs[Len(txs)].signers[1],
                                  raises |-> None, sequence_number |-> Some(source_info')])
  /\ UNCHANGED <<inputs, concurrent_vars, batch_vars, config_vars, payment, result, txs,
                 submissions, raised, returned>>

\* get_account_info raises: nothing in submit_payment catches it.
PaymentFetchFails ==
  /\ pc = "fetch"
  /\ \E e \in FetchRaises :
       /\ fetches' = Append(fetches, [tx |-> Len(txs), account |-> txs[Len(txs)].signers[1],
                                       raises |-> Some(e), sequence_number |-> None])
       /\ PaymentRaises(e)
  /\ UNCHANGED <<inputs, concurrent_vars, batch_vars, config_vars, payment, source_info,
                 offset, attempts, result, txs, submissions>>

\* One attempt of _sign_and_submit under retry(self._nonce_retry_strategies, .)
\* for the payment's transaction, and what follows it in submit_payment.
PaymentSignAndSubmit ==
  /\ pc = "submit"
  /\ \E out \in TransportOutcomes(Len(submissions) + 1) :
       /\ submissions' = Append(submissions,
                                [tx |-> Len(txs), sequence |-> Sequence(source_info, offset),
                                 signers |-> txs[Len(txs)].signers, out |-> out])
       /\ attempts' = attempts + 1
       /\ IF out.raises # None
            THEN /\ UNCHANGED <<offset, result>>
                 /\ IF NonceRetry(attempts + 1, out.raises[1])
                      THEN UNCHANGED <<pc, raised, returned>>
                      ELSE PaymentRaises(out.raises[1])
            ELSE IF IsBadNonce(out.result[1])
                   THEN /\ offset' = offset + 1
                        /\ UNCHANGED result
                        /\ IF NonceRetry(attempts + 1, "BadNonceError")
                             THEN UNCHANGED <<pc, raised, returned>>
                             ELSE PaymentRaises("BadNonceError")
                   ELSE /\ UNCHANGED offset
                        /\ result' = out.result
                        /\ PaymentResult(out.result[1])
  /\ UNCHANGED <<inputs, concurrent_vars, batch_vars, config_vars, payment, source_info,
                 fetches, txs>>

NextPayment ==
  \/ ConstructPayment
  \/ PaymentBuild
  \/ PaymentFetchAccount
  \/ PaymentFetchFails
  \/ PaymentSignAndSubmit

SpecPayment == InitPayment /\ [][NextPayment]_vars

\* ------------------------------------------------------------- RetryConfig
\* The defaults of RetryConfig.__init__; the delays are in milliseconds
\* (0.5 and 10 seconds in the source).
DefaultMaxRetries == 5
DefaultMinDelay == 500
DefaultMaxDelay == 10000
DefaultMaxNonceRefreshes == 3

\* Variant of Effective that also replaces a supplied 0 by the default.
Effective_ZeroIsDefault(arg, default) == IF arg # None /\ arg[1] > 0 THEN arg[1] ELSE default

\* x if x is not None and x >= 0 else default
Effective(arg, default) == IF arg # None /\ arg[1] >= 0 THEN arg[1] ELSE default

\* RetryConfig.__init__
RetryConfig(args) ==
  [max_retries |-> Effective(args.max_retries, DefaultMaxRetries),
   min_delay |-> Effective(args.min_delay, DefaultMinDelay),
   max_delay |-> Effective(args.max_delay, DefaultMaxDelay),
   max_nonce_refreshes |-> Effective(args.max_nonce_refreshes, DefaultMaxNonceRefreshes)]

\* The values a caller passes for one parameter: absent, negative, zero, positive.
ArgValues == {None} \cup {Some(v) : v \in -1..MaxArg}

InitRetryConfig ==
  /\ earns = <<>>
  /\ memo = FALSE
  /\ channel = FALSE
  /\ app_index = 0
  /\ whitelist_key = FALSE
  /\ max_nonce_refreshes = 0
  /\ pc = "config"
  /\ succeeded = <<>>
  /\ failed = <<>>
  /\ batch_no = 1
  /\ source_info = 0
  /\ offset = 1
  /\ attempts = 0
  /\ txs = <<>>
  /\ submissions = <<>>
  /\ outcomes = <<>>
  /\ raised = None
  /\ result = None
  /\ fetches = <<>>
  /\ payment = NoPayment
  /\ returned = None
  /\ rc_args \in [max_retries : ArgValues, min_delay : ArgValues, max_delay : ArgValues,
                  max_nonce_refreshes : ArgValues]
  /\ retry_config = None
  /\ calls = NoCalls
  /\ ledger = NoLedger

\* RetryConfig(max_retries, min_delay, max_delay, max_nonce_refreshes)
ConstructRetryConfig ==
  /\ retry_config = None
  /\ calls = NoCalls
  /\ ledger = NoLedger
  /\ pc = "config"
  /\ retry_config' = Some(RetryConfig(rc_args))
  /\ UNCHANGED <<inputs, concurrent_vars, batch_vars, payment_vars, rc_args, pc,
                 source_info, offset, attempts, result, fetches, txs, submissions, raised>>

NextRetryConfig == ConstructRetryConfig

SpecRetryConfig == InitRetryConfig /\ [][NextRetryConfig]_vars

\* ------------------------------------------- concurrent coordinator calls
\* Two _sign_and_submit_builder calls made by two threads on one Client for
\* the same source account.  calls[p] holds the locals of call p; the
\* client's configuration (max_nonce_refreshes) is read by both.
\* Transactions another writer gets accepted for the account, at most.
MaxOtherWrites == 1

Calls == {1, 2}

\* The ledger accepts a transaction iff its sequence number is the
\* account's current sequence number + 1.
LedgerAccepts(sequence) == sequence = ledger.sequence + 1

\* The SubmitTransactionResult for a transaction with that sequence number.
LedgerResult(sequence) ==
  IF LedgerAccepts(sequence)
    THEN [tx_hash |-> sequence, tx_error |-> None, invoice_errors |-> <<>>]
    ELSE [tx_hash |-> sequence,
          tx_error |-> Some([tx_error |-> Some("BadNonceError"), op_errors |-> <<>>]),
          invoice_errors |-> <<>>]

\* The ledger after call p submitted a transaction with that sequence number:
\* an accepted transaction advances the account's sequence number.
LedgerAfter(p, sequence) ==
  IF LedgerAccepts(sequence)
    THEN [ledger EXCEPT !.sequence = sequence,
                        !.accepted = Append(@, [call |-> p, sequence |-> sequence])]
    ELSE ledger

\* Variant of OffsetAfterBadNonce with one offset shared by all calls.
OffsetAfterBadNonce_Shared(p) == [q \in Calls |-> [calls[q] EXCEPT !.offset = @ + 1]]

\* nonlocal offset; offset += 1: the offset of the enclosing call.
OffsetAfterBadNonce(p) == [calls EXCEPT ![p].offset = @ + 1]

InitConcurrent ==
  /\ earns = <<>>
  /\ memo = FALSE
  /\ channel = FALSE
  /\ app_index = 0
  /\ whitelist_key = FALSE
  /\ max_nonce_refreshes \in 0..MaxNonceRefreshes
  /\ pc = "concurrent"
  /\ succeeded = <<>>
  /\ failed = <<>>
  /\ batch_no = 1
  /\ source_info = 0
  /\ offset = 1
  /\ attempts = 0
  /\ txs = <<>>
  /\ submissions = <<>>
  /\ outcomes = <<>>
  /\ raised = None
  /\ result = None
  /\ fetches = <<>>
  /\ payment = NoPayment
  /\ returned = None
  /\ rc_args = NoArgs
  /\ retry_config = None
  /\ calls = [p \in Calls |-> [pc |-> "fetch", source_info |-> None, offset |-> 1,
                                attempts |-> 0, sequence |-> None, result |-> None,
                                raised |-> None]]
  /\ ledger \in {[sequence |-> s, accepted |-> <<>>, other_writer |-> w, other_writes |-> 0] :
                   s \in 0..MaxSequence, w \in BOOLEAN}

single_vars == <<inputs, batch_vars, payment_vars, config_vars, pc, source_info, offset,
                 attempts, result, fetches, txs, submissions, raised>>

\* source_info = get_account_info(signers[0].public_key); offset = 1
CoordinatorFetch(p) ==
  /\ calls[p].pc = "fetch"
  /\ calls' = [calls EXCEPT ![p].source_info = Some(ledger.sequence),
                            ![p].offset = 1,
                            ![p].attempts = 0,
                            ![p].pc = "submit"]
  /\ UNCHANGED <<single_vars, ledger>>

\* _sign_and_submit up to its submit_transaction call, which blocks.
CoordinatorCall(p) ==
  /\ calls[p].pc = "submit"
  /\ calls' = [calls EXCEPT
                 ![p].sequence = Some(Sequence(calls[p].source_info[1], calls[p].offset)),
                 ![p].pc = "awaiting"]
  /\ UNCHANGED <<single_vars, ledger>>

\* The ledger answers call p's submit_transaction call; _sign_and_submit and
\* the retry executor run up to the next transport call.
CoordinatorEnds(p) ==
  /\ calls[p].pc = "awaiting"
  /\ LET r == LedgerResult(calls[p].sequence[1]) IN
       /\ ledger' = LedgerAfter(p, calls[p].sequence[1])
       /\ IF IsBadNonce(r)
            THEN calls' = [OffsetAfterBadNonce(p) EXCEPT
                            ![p].attempts = @ + 1,
                            ![p].raised = IF NonceRetry(calls[p].attempts + 1, "BadNonceError")
                                            THEN None ELSE Some("BadNonceError"),
                            ![p].pc = IF NonceRetry(calls[p].attempts + 1, "BadNonceError")
                                        THEN "submit" ELSE "raised"]
            ELSE calls' = [calls EXCEPT ![p].attempts = @ + 1,
                                        ![p].result = Some(r),
                                        ![p].pc = "returned"]
  /\ UNCHANGED single_vars

\* Another writer gets a transaction for the account accepted.
OtherWriter ==
  /\ ledger.other_writer
  /\ ledger.other_writes < MaxOtherWrites
  /\ ledger' = [ledger EXCEPT !.sequence = @ + 1, !.other_writes = @ + 1]
  /\ UNCHANGED <<single_vars, calls>>

CallSteps(p) == CoordinatorFetch(p) \/ CoordinatorCall(p) \/ CoordinatorEnds(p)

NextConcurrent ==
  \/ \E p \in Calls : CoordinatorFetch(p)
  \/ \E p \in Calls : CoordinatorCall(p)
  \/ \E p \in Calls : CoordinatorEnds(p)
  \/ OtherWriter

\* Each calling thread keeps running and every transport call ends; the
\* other writer need not write.
SpecConcurrent ==
  InitConcurrent /\ [][NextConcurrent]_vars /\ \A p \in Calls : WF_vars(CallSteps(p))

\* ------------------------------------------------- vocabulary of the claims
AllResults == succeeded \o failed
EarnsOf(rs) == [k \in 1..Len(rs) |-> rs[k].earn]
\* The sub-batch an earn belongs to.
BatchOf(i) == ((i - 1) \div BatchSize) + 1
\* A _submit_earn_batch_tx call that raised, or returned a transaction error.
FailedOutcome(o) == o.raises # None \/ o.result[1].tx_error # None
\* The sub-batch was attempted: its _submit_earn_batch_tx call has ended.
Attempted(b) == b <= Len(outcomes)
NeverAttempted(er) == er.tx_hash = None /\ er.error = None
\* The earns of the first n sub-batches, in input order.
RECURSIVE Concat(_, _)
Concat(bs, n) == IF n = 0 THEN <<>> ELSE Concat(bs, n - 1) \o bs[n]
\* The hash the transport returned for the result of sub-batch b.
HashOfBatch(b) == outcomes[b].result[1].tx_hash
\* The sub-batches before b succeeded, each earn with its sub-batch's hash.
SucceededBefore(b) ==
  succeeded = [k \in 1..Len(Concat(Batches, b - 1)) |->
                 EarnResult(Concat(Batches, b - 1)[k],
                            Some(HashOfBatch(BatchOf(Concat(Batches, b - 1)[k]))), None)]
Increasing(q) == \A a, b \in 1..Len(q) : a < b => q[a] < q[b]
\* A returned result carrying a whole-transaction error and no operation errors.
WholeTxErrorOnly(o) ==
  /\ o.result # None
  /\ o.result[1].tx_error # None
  /\ o.result[1].tx_error[1].op_errors = <<>>
\* A returned result carrying operation errors.
HasOpErrors(o) ==
  /\ o.result # None
  /\ o.result[1].tx_error # None
  /\ o.result[1].tx_error[1].op_errors # <<>>
OpErrorsOf(o) == o.result[1].tx_error[1].op_errors
\* The coordinator handed a result with invoice errors to _submit_earn_batch_tx.
InvoiceErrorsReturned(sub) ==
  /\ sub.out.result # None
  /\ sub.out.result[1].invoice_errors # <<>>
  /\ ~IsBadNonce(sub.out.result[1])
InvoiceFault == "Error: unexpected invoice errors present"

\* ------------------------------------------------------------------ claims

\* C1: a returned BatchEarnResult has len(succeeded) + len(failed) = K and
\* every input earn appears in exactly one EarnResult of succeeded ++ failed,
\* on every path that returns.
C1_Partition ==
  pc = "returned" =>
    /\ Len(succeeded) + Len(failed) = Len(earns)
    /\ \A i \in 1..Len(earns) :
         Cardinality({k \in 1..Len(AllResults) : AllResults[k].earn = i}) = 1

C1_Witness ==
  /\ pc = "returned"
  /\ succeeded # <<>>
  /\ \E k \in 1..Len(failed) : failed[k].error # None
  /\ \E k \in 1..Len(failed) : NeverAttempted(failed[k])

\* C2: in a returned BatchEarnResult succeeded and failed each keep the
\* input order, and in failed the earns of the failed sub-batch come before
\* the never-attempted ones.
C2_InputOrder ==
  pc = "returned" =>
    /\ Increasing(EarnsOf(succeeded))
    /\ Increasing(EarnsOf(failed))
    /\ \A a, b \in 1..Len(failed) :
         (NeverAttempted(failed[a]) /\ ~NeverAttempted(failed[b])) => b < a

C2_Witness ==
  /\ pc = "returned"
  /\ Len(succeeded) >= 2
  /\ Len(failed) >= 2
  /\ ~NeverAttempted(failed[1])
  /\ NeverAttempted(failed[Len(failed)])

\* C3: sub-batches are processed strictly in order and the first failing one
\* ends the processing: no transaction is built or submitted for a later
\* sub-batch, and succeeded is exactly the earns of the sub-batches before it.
C3_ShortCircuit ==
  /\ Len(txs) \in {Len(outcomes), Len(outcomes) + 1}
  /\ \A b \in 1..Len(txs) : txs[b].ops = Batches[b]
  /\ \A a, b \in 1..Len(submissions) : a < b => submissions[a].tx <= submissions[b].tx
  /\ \A k \in 1..Len(submissions) : submissions[k].tx = Len(txs)
                                    \/ ~FailedOutcome(outcomes[submissions[k].tx])
  /\ \A b \in 1..Len(outcomes) :
       FailedOutcome(outcomes[b]) =>
         /\ b = Len(outcomes)
         /\ Len(txs) = b
         /\ pc \in {"returned", "raised"}
         /\ pc = "returned" => EarnsOf(succeeded) = Concat(Batches, b - 1)
  /\ (pc = "returned" /\ \A b \in 1..Len(outcomes) : ~FailedOutcome(outcomes[b])) =>
       EarnsOf(succeeded) = EarnList

C3_Witness ==
  /\ pc = "returned"
  /\ Len(outcomes) = 2
  /\ FailedOutcome(outcomes[2])
  /\ Len(Batches) = 3
  /\ Len(txs) = 2

\* C4: in a returned BatchEarnResult an EarnResult has neither a hash nor an
\* error exactly when its earn belongs to a sub-batch that was never
\* attempted (one after the first failing sub-batch).
C4_NeverAttempted ==
  pc = "returned" =>
    \A k \in 1..Len(AllResults) :
      NeverAttempted(AllResults[k]) <=> ~Attempted(BatchOf(AllResults[k].earn))

C4_Witness ==
  /\ pc = "returned"
  /\ \E k \in 1..Len(failed) : NeverAttempted(failed[k])
  /\ \E k \in 1..Len(failed) : failed[k].tx_hash # None /\ failed[k].error = None
  /\ \E k \in 1..Len(failed) : failed[k].tx_hash # None /\ failed[k].error # None

\* C5: when every sub-batch's submission returns without a transaction-level
\* error, ceil(K/BatchSize) transactions were built and accepted, transaction
\* b holding one operation per earn of the b-th consecutive slice (only the
\* last slice may be smaller), and with no bad-nonce attempt that is also the
\* number of submit_transaction calls; succeeded has all K earns in input
\* order, each with the hash of its own sub-batch, and failed is empty.
C5_AllSucceed ==
  (/\ pc = "returned"
   /\ \A b \in 1..Len(outcomes) : ~FailedOutcome(outcomes[b])) =>
    /\ Len(txs) = Ceil(Len(earns), BatchSize)
    /\ Len(outcomes) = Len(txs)
    /\ Cardinality({k \in 1..Len(submissions) :
                      /\ submissions[k].out.result # None
                      /\ submissions[k].out.result[1].tx_error = None}) = Len(txs)
    /\ \A b \in 1..Len(txs) :
         /\ txs[b].ops = SubSeq(EarnList, (b - 1) * BatchSize + 1,
                                Min(b * BatchSize, Len(earns)))
         /\ Len(txs[b].ops) <= BatchSize
         /\ b < Len(txs) => Len(txs[b].ops) = BatchSize
         /\ submissions[HashOfBatch(b)].tx = b
    /\ (\A k \in 1..Len(submissions) : ~IsBadNonce(submissions[k].out.result[1]))
         => Len(submissions) = Len(txs)
    /\ succeeded = [i \in 1..Len(earns) |-> EarnResult(i, Some(HashOfBatch(BatchOf(i))), None)]
    /\ failed = <<>>

C5_Witness ==
  /\ pc = "returned"
  /\ Len(earns) = 2 * BatchSize + 1
  /\ Len(succeeded) = Len(earns)
  /\ Len(txs) = 3
  /\ Len(submissions) > 3

\* C6: when a sub-batch's submission returns a transaction error that carries
\* only a whole-transaction error, every earn of that sub-batch is in failed
\* with that error and that sub-batch's hash, and the earlier sub-batches
\* stay in succeeded with their own hashes.
C6_WholeTxError ==
  \A b \in 1..Len(outcomes) :
    WholeTxErrorOnly(outcomes[b]) =>
      /\ pc = "returned"
      /\ outcomes[b].result[1].tx_error[1].tx_error # None
      /\ submissions[HashOfBatch(b)].tx = b
      /\ \A idx \in 1..Len(Batches[b]) :
           failed[idx] = EarnResult(Batches[b][idx], Some(HashOfBatch(b)),
                                    outcomes[b].result[1].tx_error[1].tx_error)
      /\ SucceededBefore(b)

C6_Witness ==
  /\ pc = "returned"
  /\ Len(outcomes) = 2
  /\ WholeTxErrorOnly(outcomes[2])
  /\ Len(succeeded) = BatchSize
  /\ Len(earns) > BatchSize

\* C7 (as stated): operation errors are recorded positionally on the earns of
\* the sub-batch, and a count of operation errors that differs from the
\* sub-batch size ends in a fault, never in a returned result.
C7_OpErrorsPositional ==
  \A b \in 1..Len(outcomes) :
    HasOpErrors(outcomes[b]) =>
      IF Len(OpErrorsOf(outcomes[b])) = Len(Batches[b])
        THEN /\ pc = "returned"
             /\ \A idx \in 1..Len(Batches[b]) :
                  /\ failed[idx].earn = Batches[b][idx]
                  /\ failed[idx].error = OpErrorsOf(outcomes[b])[idx]
        ELSE pc = "raised"

\* C8 (as stated): when the submission of a sub-batch raises, every earn of
\* the sub-batch is recorded in failed with that error and no further
\* sub-batch is processed.
C8_RaisedRecorded ==
  \A b \in 1..Len(outcomes) :
    outcomes[b].raises # None =>
      /\ pc = "returned"
      /\ Len(txs) = b
      /\ \A idx \in 1..Len(Batches[b]) :
           /\ failed[idx].earn = Batches[b][idx]
           /\ failed[idx].error = outcomes[b].raises

\* C9 (as stated): the call raises only for a configuration error found
\* before any network call or for the unexpected-invoice-errors fault.
C9_NeverRaises ==
  pc = "raised" =>
    \/ raised = Some("ValueError") /\ submissions = <<>> /\ outcomes = <<>>
    \/ raised = Some(InvoiceFault)

\* C10 (as stated): invoice errors returned by the transport for an earn
\* sub-batch leave submit_earn_batch as a fatal error and no EarnResult
\* carries that error.
C10_InvoiceErrorsFatal ==
  \A k \in 1..Len(submissions) :
    InvoiceErrorsReturned(submissions[k]) =>
      /\ pc = "raised"
      /\ \A n \in 1..Len(AllResults) : AllResults[n].error # Some(InvoiceFault)

\* C10 (amended): invoice errors returned by the transport for an earn
\* sub-batch make _submit_earn_batch_tx raise the internal Error, which
\* submit_earn_batch catches: every earn of that sub-batch is in failed with
\* that error and no hash, no later sub-batch is processed, and a
\* BatchEarnResult is returned.
C10_InvoiceErrorsRecorded ==
  \A k \in 1..Len(submissions) :
    InvoiceErrorsReturned(submissions[k]) =>
      LET b == submissions[k].tx IN
      /\ pc = "returned"
      /\ raised = None
      /\ k = Len(submissions)
      /\ Len(txs) = b
      /\ outcomes[b].raises = Some(InvoiceFault)
      /\ \A idx \in 1..Len(Batches[b]) :
           failed[idx] = EarnResult(Batches[b][idx], None, Some(InvoiceFault))
      /\ EarnsOf(succeeded) = Concat(Batches, b - 1)

C10_Witness ==
  /\ pc = "returned"
  /\ Len(submissions) >= 2
  /\ InvoiceErrorsReturned(submissions[Len(submissions)])
  /\ succeeded # <<>>
  /\ Len(failed) > BatchSize

\* ------------------------------------- vocabulary of the coordinator claims
\* The transport's result reports a bad nonce.
ReportsBadNonce(out) ==
  /\ out.result # None
  /\ out.result[1].tx_error # None
  /\ out.result[1].tx_error[1].tx_error = Some("BadNonceError")
\* The submit_transaction calls of the coordinator call for transaction b.
AttemptsOf(b) == {k \in 1..Len(submissions) : submissions[k].tx = b}
\* Submission k is the n-th attempt of its coordinator call.
AttemptNo(k) == Cardinality({a \in AttemptsOf(submissions[k].tx) : a <= k})
\* The get_account_info calls of the coordinator call for transaction b.
FetchesOf(b) == {k \in 1..Len(fetches) : fetches[k].tx = b}
\* The sequence number the coordinator call for transaction b fetched.
FetchedSequence(b) == (CHOOSE k \in FetchesOf(b) : fetches[k].raises = None)
SomeInvoice == \E i \in 1..Len(earns) : earns[i]
AllInvoices == \A i \in 1..Len(earns) : earns[i]

C12_SequencePerAttempt ==
  \A k \in 1..Len(submissions) :
    LET b == submissions[k].tx IN
    /\ submissions[k].sequence =
         fetches[FetchedSequence(b)].sequence_number[1] + AttemptNo(k)
    /\ \A a \in AttemptsOf(b) : a < k =>
         /\ ReportsBadNonce(submissions[a].out)
         /\ submissions[a].sequence + 1 = submissions[a + 1].sequence
    /\ AttemptNo(k) - 1 <= max_nonce_refreshes

C12_Witness ==
  /\ Len(submissions) >= 2
  /\ AttemptNo(Len(submissions)) = max_nonce_refreshes + 1
  /\ max_nonce_refreshes >= 1
  /\ ~ReportsBadNonce(submissions[Len(submissions)].out)
  /\ submissions[Len(submissions)].out.result # None
  /\ submissions[Len(submissions)].sequence = MaxSequence + max_nonce_refreshes + 1

\* C13: a coordinator call makes at most max_nonce_refreshes + 1 attempts;
\* when all max_nonce_refreshes + 1 report a bad nonce it stops and its
\* caller gets the bad-nonce error.
C13_AttemptLimit ==
  \A b \in 1..Len(txs) :
    /\ Cardinality(AttemptsOf(b)) <= max_nonce_refreshes + 1
    /\ (/\ Cardinality(AttemptsOf(b)) = max_nonce_refreshes + 1
        /\ \A a \in AttemptsOf(b) : ReportsBadNonce(submissions[a].out)) =>
         /\ pc \notin {"fetch", "submit"}
         /\ Len(outcomes) = b
         /\ outcomes[b].raises = Some("BadNonceError")

C13_Witness ==
  /\ max_nonce_refreshes >= 1
  /\ Len(txs) = 2
  /\ Cardinality(AttemptsOf(2)) = max_nonce_refreshes + 1
  /\ \A a \in AttemptsOf(2) : ReportsBadNonce(submissions[a].out)
  /\ pc = "returned"

\* C18: when a strategy of the coordinator's set stops the retry loop (the
\* attempt raised an error other than bad-nonce, or the limit is reached),
\* no further attempt is made and the caller gets the error of that attempt.
C18_StopPropagates ==
  \A k \in 1..Len(submissions) :
    LET b == submissions[k].tx
        out == submissions[k].out IN
    (\/ out.raises # None
     \/ ReportsBadNonce(out) /\ AttemptNo(k) >= max_nonce_refreshes + 1) =>
      /\ \A a \in AttemptsOf(b) : a <= k
      /\ pc \notin {"fetch", "submit"}
      /\ Len(outcomes) = b
      /\ outcomes[b].raises = IF out.raises # None THEN out.raises ELSE Some("BadNonceError")

C18_Witness ==
  /\ Len(submissions) >= 2
  /\ submissions[Len(submissions)].out.raises = Some("TransactionRejectedError")
  /\ AttemptNo(Len(submissions)) = 1
  /\ max_nonce_refreshes >= 1
  /\ pc = "returned"

\* C19: a coordinator call fetches the sequence number once, from the account
\* of the first signer (the channel if given, else the sender, never the
\* whitelist key, which signs last), before its first attempt and never
\* again; when the fetch fails no attempt is made.
C19_FetchedOnce ==
  \A b \in 1..Len(txs) :
    /\ Cardinality(FetchesOf(b)) <= 1
    /\ \A f \in FetchesOf(b) :
         /\ fetches[f].account = IF channel THEN "channel" ELSE "sender"
         /\ fetches[f].raises # None => AttemptsOf(b) = {}
    /\ AttemptsOf(b) # {} => \E f \in FetchesOf(b) : fetches[f].raises = None
    /\ \A a \in AttemptsOf(b) :
         LET sg == submissions[a].signers IN
         /\ sg[1] = IF channel THEN "channel" ELSE "sender"
         /\ whitelist_key => sg[Len(sg)] = "whitelist_key" /\ Len(sg) >= 2
         /\ submissions[a].sequence - AttemptNo(a) =
              fetches[FetchedSequence(b)].sequence_number[1]

C19_Witness ==
  /\ channel
  /\ whitelist_key
  /\ Len(txs) = 2
  /\ Cardinality(AttemptsOf(2)) = 2
  /\ Cardinality(FetchesOf(2)) = 1
  /\ Len(fetches) = 2

\* C20: an attempt whose result is a success or a transaction error other
\* than bad-nonce is the last of its coordinator call, leaves the offset as
\* it is, and its result is what the coordinator returns; every attempt that
\* is followed by another one reported a bad nonce.
C20_OtherResultsEndLoop ==
  \A k \in 1..Len(submissions) :
    LET b == submissions[k].tx
        out == submissions[k].out IN
    /\ (out.result # None /\ ~ReportsBadNonce(out)) =>
         /\ \A a \in AttemptsOf(b) : a <= k
         /\ k = Len(submissions) => result = out.result
         /\ (k = Len(submissions) /\ fetches[Len(fetches)].tx = b) => offset = AttemptNo(k)
    /\ (\E a \in AttemptsOf(b) : a > k) => ReportsBadNonce(out)

C20_Witness ==
  /\ Len(submissions) >= 2
  /\ AttemptNo(Len(submissions)) = 2
  /\ offset = 2
  /\ result # None
  /\ result[1].tx_error # None
  /\ result[1].tx_error[1].tx_error = Some("InsufficientBalanceError")
  /\ result = submissions[Len(submissions)].out.result

\* ------------------------------------------------ claims on submit_payment

\* C14: a Payment carrying an invoice, submitted while the app index is 0,
\* is rejected with a configuration error before any account fetch or
\* submission.
C14_InvoiceNeedsAppIndex ==
  (payment.invoice /\ app_index = 0 /\ pc \notin {"new", "start"}) =>
    /\ pc = "raised"
    /\ raised = Some("ValueError")
    /\ returned = None
    /\ fetches = <<>>
    /\ submissions = <<>>

C14_Witness ==
  /\ payment.invoice
  /\ ~payment.memo
  /\ app_index = 0
  /\ pc = "raised"
  /\ txs = <<>>

\* C15: when the result of a payment's submission has no transaction-level
\* error, a single invoice error with reason already-paid, wrong-destination
\* or sku-not-found reaches the caller as the matching specific error, and
\* more than one invoice error as the generic invoice-count error; in neither
\* case is a transaction hash returned.
C15_InvoiceErrorMapping ==
  (result # None /\ result[1].tx_error = None /\ result[1].invoice_errors # <<>>) =>
    LET ie == result[1].invoice_errors IN
    /\ pc = "raised"
    /\ returned = None
    /\ (ie = <<"ALREADY_PAID">>) => raised = Some("AlreadyPaidError")
    /\ (ie = <<"WRONG_DESTINATION">>) => raised = Some("WrongDestinationError")
    /\ (ie = <<"SKU_NOT_FOUND">>) => raised = Some("SkuNotFoundError")
    /\ Len(ie) > 1 => raised = Some("Error: invalid number of invoice errors")

C15_Witness ==
  /\ pc = "raised"
  /\ payment.invoice
  /\ result # None
  /\ result[1].tx_error = None
  /\ result[1].invoice_errors = <<"ALREADY_PAID">>
  /\ raised = Some("AlreadyPaidError")
  /\ Len(submissions) = 2

Fields == {"max_retries", "min_delay", "max_delay", "max_nonce_refreshes"}
\* The documented default of a field (delays in milliseconds).
Documented(f) ==
  IF f = "max_retries" THEN 5
  ELSE IF f = "max_nonce_refreshes" THEN 3
  ELSE IF f = "min_delay" THEN 500
  ELSE 10000

InFlight == {k \in 1..Len(submissions) : submissions[k].out = Pending}
\* submit_earn_batch has returned or raised.
Terminated == pc \in {"returned", "raised"}
MaxFetches == Ceil(Len(earns), BatchSize)
MaxAttempts == Ceil(Len(earns), BatchSize) * (max_nonce_refreshes + 1)

\* C22: when every transport call (account fetch, submit) returns or raises,
\* a submit_earn_batch call over K earns terminates, and at every moment it
\* has made at most ceil(K / BatchSize) account fetches and at most
\* ceil(K / BatchSize) * (max_nonce_refreshes + 1) sign+submit attempts, of
\* which at most one is in flight.
C22_TerminatesWithinBounds ==
  /\ [](/\ Len(fetches) <= MaxFetches
        /\ Len(submissions) <= MaxAttempts
        /\ Cardinality(InFlight) <= 1)
  /\ <>Terminated

\* A call over several sub-batches that returned after using every fetch and
\* every attempt the bounds allow, each sub-batch meeting a bad nonce first.
C22_Witness ==
  /\ pc = "returned"
  /\ Len(earns) > BatchSize
  /\ max_nonce_refreshes >= 1
  /\ Len(fetches) = MaxFetches
  /\ Len(submissions) = MaxAttempts
  /\ InFlight = {}

\* Call p took the step: its position in the code changed.
StepOf(p) == calls'[p].pc # calls[p].pc
\* Call p's transaction was accepted: its coordinator returned a result
\* without a transaction error.
Accepted(p) == calls[p].result # None /\ calls[p].result[1].tx_error = None
\* A step of one call leaves the locals of every other call alone, its
\* offset and its fetched sequence number among them.
NoInterference == \A p \in Calls : ~StepOf(p) => calls'[p] = calls[p]
\* No two calls are accepted with the same sequence number, by what the
\* calls were told and by what the ledger recorded.
DistinctSequences ==
  /\ \A p, q \in Calls : p # q /\ Accepted(p) /\ Accepted(q) =>
       calls[p].sequence # calls[q].sequence
  /\ \A j, k \in 1..Len(ledger.accepted) : j # k =>
       ledger.accepted[j].sequence # ledger.accepted[k].sequence

\* C21: two coordinator calls running concurrently on one client for the
\* same source account share no mutable state (a step of one call, a bad
\* nonce included, never changes the other call's offset or fetched sequence
\* number), are never both accepted with the same sequence number, and, when
\* max_nonce_refreshes >= 1 and nobody else writes to the account, are both
\* eventually accepted.
C21_ConcurrentCalls ==
  /\ [][NoInterference]_vars
  /\ []DistinctSequences
  /\ (max_nonce_refreshes >= 1 /\ ~ledger.other_writer => <>(\A p \in Calls : Accepted(p)))

\* Both calls fetched the same sequence number, one of them met the bad
\* nonce the other's acceptance caused, and both were accepted.
C21_Witness ==
  /\ max_nonce_refreshes >= 1
  /\ ~ledger.other_writer
  /\ \A p \in Calls : Accepted(p)
  /\ calls[1].source_info = calls[2].source_info
  /\ \E p \in Calls : calls[p].offset = 2 /\ calls[p].attempts = 2
  /\ calls[1].sequence # calls[2].sequence
====
